---- MODULE Spec2Model ----
(***************************************************************************)
(* A model of obplatform's Connector (src/obplatform/connector.py):        *)
(*   - download_export: _start_export_job, _poll_export_job, then the      *)
(*     chunked copy of the ready response into the destination file under  *)
(*     a ProgressBar;                                                      *)
(*   - _get_payload: the bracket-indexed flattening of query parameters.   *)
(* The remote server, the transport and the file system are the            *)
(* environment: every response, chunk and I/O failure is a nondeterministic*)
(* choice.  Python values are tagged records, strings are TLA+ strings.    *)
(***************************************************************************)
EXTENDS Integers, Sequences, FiniteSets, TLC

(***************************************************************************)
(* Bounds of the model.                                                    *)
(***************************************************************************)
\* the server answers at most MaxPolls status requests of one job
MaxPolls == 3
\* a response body arrives in at most MaxChunks chunks
MaxChunks == 2
\* a filter group lists at most MaxItems values
MaxItems == 2
MaxFields == 2
MaxHealthCalls == 2

(***************************************************************************)
(* Python values: int and str, as tagged records of one shape.             *)
(***************************************************************************)
PyInt(i) == [t |-> "int", n |-> i, s |-> ""]
PyStr(w) == [t |-> "str", n |-> 0, s |-> w]

Digit(d) ==
    CASE d = 0 -> "0" [] d = 1 -> "1" [] d = 2 -> "2" [] d = 3 -> "3"
      [] d = 4 -> "4" [] d = 5 -> "5" [] d = 6 -> "6" [] d = 7 -> "7"
      [] d = 8 -> "8" [] d = 9 -> "9"

RECURSIVE NatStr(_)
NatStr(i) == IF i < 10 THEN Digit(i) ELSE NatStr(i \div 10) \o Digit(i % 10)

\* the decimal text Python gives an int, in str(i) and in f"{i}"
IntStr(i) == IF i < 0 THEN "-" \o NatStr(0 - i) ELSE NatStr(i)

\* str(x): a str is returned as it is, an int becomes its decimal text
str(x) == IF x.t = "str" THEN x ELSE PyStr(IntStr(x.n))

\* list(map(str, ids))
\* (variant: the ids are passed on as given)
map_str_raw(ids) == ids
map_str(ids) == [i \in 1..Len(ids) |-> str(ids[i])]

(***************************************************************************)
(* The environment's choices.                                              *)
(***************************************************************************)
ENDPOINT == "https://api.ashraeobdatabase.com"

\* the id lists a caller passes to download_export
IdLists ==
    { <<>>,
      <<PyStr("Appliance_Usage"), PyStr("Occupancy")>>,
      <<PyStr("22"), PyStr("11")>>,
      <<PyInt(22), PyStr("11"), PyInt(2)>>,
      <<PyInt(0), PyInt(-7)>> }

\* statuses the server may answer the job-creation POST with
PostStatuses == {200, 201, 202, 204, 304, 400, 404, 499, 500, 503, 599}
\* statuses the server may answer a status GET with
PollStatuses == {200, 202, 204, 404, 500}
\* values of a Location header
Locations == {"/api/v1/exports/abc", "/api/v1/exports/15270ec7"}
\* values of a Content-Length header
ContentLengths == {"0", "4"}
\* the chunks iter_content may yield (it never yields an empty one)
Chunks == {"AB", "CD", "E"}

\* header mappings: a TLA+ function whose domain is the headers present
NoHeaders == [h \in {} |-> ""]
Header(name, value) == [h \in {name} |-> value]
PostHeaders == {NoHeaders} \cup {Header("location", l) : l \in Locations}
PollHeaders == {NoHeaders} \cup {Header("content-length", c) : c \in ContentLengths}

\* requests.Response, as far as the connector reads it
\* (method and id say which request it answers: id counts the requests of
\* that method)
Response(method, id, status, headers) ==
    [method |-> method, id |-> id, status |-> status, headers |-> headers]
NoResponse == Response("", 0, 0, NoHeaders)

\* exceptions: the kind, and the status code an HTTPError carries
Exc(kind, status) == [kind |-> kind, status |-> status]
NoError == Exc("none", 0)

\* Response.raise_for_status raises HTTPError for 4xx and 5xx
\* (variant: only server errors raise)
raises_for_status_5xx_only(status) == 500 <= status /\ status < 600
raises_for_status(status) == 400 <= status /\ status < 600

(***************************************************************************)
(* State.                                                                  *)
(***************************************************************************)
VARIABLES
    pc,                 \* where download_export stands
    behavior_ids,       \* download_export's argument
    studies,            \* download_export's argument
    show_progress_bar,  \* download_export's argument
    start_calls,        \* the calls of _start_export_job: <<behavior_ids, studies>>
    posts,              \* the POSTs sent: [url, json]
    gets,               \* the GETs sent: their URLs
    response,           \* the response object the code holds
    job_uri,            \* the value _start_export_job returned
    poll_calls,         \* the calls of _poll_export_job: the job_uri passed
    log,                \* the poll loop's events: [e, n]
    open_responses,     \* ids of the streamed responses not closed
    err,                \* the exception that left download_export
    progress,           \* the ProgressBar object
    downloaded_logged,  \* byte counts of the "Downloaded N bytes" lines
    file_open,          \* the destination file object is open
    open_calls,         \* number of open(filename, "wb") calls
    disk,               \* the destination path: [exists, data]
    chunk,              \* the chunk the loop body holds
    chunks,             \* the chunks iter_content has yielded
    params,             \* _get_payload's argument
    payload,            \* _get_payload's result
    ppc,                \* where the _get_payload call stands
    hpc,                \* whether check_health is the operation in use
    health_response,    \* what the server answers on /api/v1/health
    health_gets,        \* the GETs check_health sent: their URLs
    health_results      \* the outcomes of the check_health calls: [exc, ret]

export_vars ==
    <<pc, behavior_ids, studies, show_progress_bar, start_calls, posts, gets,
      response, job_uri, poll_calls, log, open_responses, err, progress,
      downloaded_logged, file_open, open_calls, disk, chunk, chunks>>
payload_vars == <<params, payload, ppc>>
health_vars == <<hpc, health_response, health_gets, health_results>>
vars == <<export_vars, payload_vars, health_vars>>


(***************************************************************************)
(* ProgressBar (a record) and the tqdm meter it may own.                   *)
(***************************************************************************)
NoTqdm == [made |-> FALSE, total |-> 0, n |-> 0, closes |-> 0]
tqdm(total) == [made |-> TRUE, total |-> total, n |-> 0, closes |-> 0]

\* "if self.progress_bar:": None is false, and a tqdm object is true exactly
\* when its total is positive (tqdm.__bool__)
truthy(progress_bar) == progress_bar.made /\ progress_bar.total > 0

\* ProgressBar.__init__
ProgressBar(total_size_in_bytes, use_tqdm) ==
    [total_size_in_bytes |-> total_size_in_bytes,
     current_size_in_bytes |-> 0,
     progress_bar |-> IF use_tqdm THEN tqdm(total_size_in_bytes) ELSE NoTqdm,
     closes |-> 0]
NoProgressBar == ProgressBar(0, FALSE)

\* ProgressBar.update
\* (variant: "=" in place of "+=")
update_assigns(self, chunk_size_in_bytes) ==
    [self EXCEPT !.current_size_in_bytes = chunk_size_in_bytes]
\* (variant: the bytes are counted only when there is a meter to move)
update_only_with_meter(self, chunk_size_in_bytes) ==
    IF truthy(self.progress_bar)
    THEN [self EXCEPT
            !.current_size_in_bytes = @ + chunk_size_in_bytes,
            !.progress_bar = [@ EXCEPT !.n = @ + chunk_size_in_bytes]]
    ELSE self
\* (variant: the calls are counted, not the bytes)
update_counts_chunks(self, chunk_size_in_bytes) ==
    [self EXCEPT
        !.current_size_in_bytes = @ + 1,
        !.progress_bar = IF truthy(@) THEN [@ EXCEPT !.n = @ + 1] ELSE @]
update(self, chunk_size_in_bytes) ==
    [self EXCEPT
        !.current_size_in_bytes = @ + chunk_size_in_bytes,
        !.progress_bar =
            IF truthy(@) THEN [@ EXCEPT !.n = @ + chunk_size_in_bytes] ELSE @]

\* ProgressBar.close, which __exit__ calls
close(self) ==
    [self EXCEPT
        !.progress_bar = IF truthy(@) THEN [@ EXCEPT !.closes = @ + 1] ELSE @,
        !.closes = @ + 1]

\* int(text) of a decimal text
int(text) == CHOOSE i \in 0..99 : IntStr(i) = text

\* int(response.headers.get("content-length", 0))
\* (variant: an absent header gives -1, for "unknown")
total_size_of_unknown_negative(resp) ==
    IF "content-length" \in DOMAIN resp.headers
    THEN int(resp.headers["content-length"])
    ELSE 0 - 1
total_size_of(resp) ==
    IF "content-length" \in DOMAIN resp.headers
    THEN int(resp.headers["content-length"])
    ELSE 0

(***************************************************************************)
(* _start_export_job and one iteration of _poll_export_job, as functions   *)
(* of the response received: the exception raised (NoError when none) and  *)
(* what the code does next.                                                *)
(***************************************************************************)
\* lines 65-67: raise_for_status(), then headers["location"]
\* (variant: the endpoint is put before the header's value)
start_export_job_prefixed(resp) ==
    IF raises_for_status(resp.status)
    THEN [exc |-> Exc("HTTPError", resp.status), ret |-> ""]
    ELSE IF "location" \notin DOMAIN resp.headers
    THEN [exc |-> Exc("KeyError", 0), ret |-> ""]
    ELSE [exc |-> NoError, ret |-> ENDPOINT \o resp.headers["location"]]
\* (variant: headers.get("location", "") in place of headers["location"])
start_export_job_default_location(resp) ==
    IF raises_for_status(resp.status)
    THEN [exc |-> Exc("HTTPError", resp.status), ret |-> ""]
    ELSE IF "location" \notin DOMAIN resp.headers
    THEN [exc |-> NoError, ret |-> ""]
    ELSE [exc |-> NoError, ret |-> resp.headers["location"]]
start_export_job(resp) ==
    IF raises_for_status(resp.status)
    THEN [exc |-> Exc("HTTPError", resp.status), ret |-> ""]
    ELSE IF "location" \notin DOMAIN resp.headers
    THEN [exc |-> Exc("KeyError", 0), ret |-> ""]
    ELSE [exc |-> NoError, ret |-> resp.headers["location"]]

\* lines 83-91: "raise", "sleep" (202: close, then wait), "return" (200), or
\* "loop" (neither branch taken: the while loop starts over at once)
\* (variant: no 202 branch, so no close and no wait)
poll_export_job_no_wait(resp) ==
    IF raises_for_status(resp.status) THEN "raise"
    ELSE IF resp.status = 200 THEN "return"
    ELSE "loop"
\* (variant: the second 202 is an error)
poll_export_job_gives_up(resp) ==
    IF raises_for_status(resp.status) \/ (resp.status = 202 /\ resp.id >= 2)
    THEN "raise"
    ELSE IF resp.status = 202 THEN "sleep"
    ELSE IF resp.status = 200 THEN "return"
    ELSE "loop"
\* (variant: 202 ends the poll as 200 does)
poll_export_job_returns_accepted(resp) ==
    IF raises_for_status(resp.status) THEN "raise"
    ELSE IF resp.status \in {200, 202} THEN "return"
    ELSE "loop"
\* (variant: a server error is waited out like a 202)
poll_export_job_retries_5xx(resp) ==
    IF 400 <= resp.status /\ resp.status < 500 THEN "raise"
    ELSE IF resp.status = 202 \/ resp.status >= 500 THEN "sleep"
    ELSE IF resp.status = 200 THEN "return"
    ELSE "loop"
poll_export_job(resp) ==
    IF raises_for_status(resp.status) THEN "raise"
    ELSE IF resp.status = 202 THEN "sleep"
    ELSE IF resp.status = 200 THEN "return"
    ELSE "loop"

\* the seconds of time.sleep in the poll loop
PollInterval == 1

Event(e, n) == [e |-> e, n |-> n]

(***************************************************************************)
(* Initial state: a Connector has been constructed, nothing called.        *)
(***************************************************************************)
NoDisk == [exists |-> FALSE, data |-> ""]
OldDisk == [exists |-> TRUE, data |-> "OLD"]

ExportInit ==
    /\ pc = "idle"
    /\ behavior_ids = <<>>
    /\ studies = <<>>
    /\ show_progress_bar = FALSE
    /\ start_calls = <<>>
    /\ posts = <<>>
    /\ gets = <<>>
    /\ response = NoResponse
    /\ job_uri = ""
    /\ poll_calls = <<>>
    /\ log = <<>>
    /\ open_responses = {}
    /\ err = NoError
    /\ progress = NoProgressBar
    /\ downloaded_logged = <<>>
    /\ file_open = FALSE
    /\ open_calls = 0
    /\ disk \in {NoDisk, OldDisk}
    /\ chunk = ""
    /\ chunks = <<>>

PayloadIdle ==
    /\ params = <<>>
    /\ payload = <<>>
    /\ ppc = "unused"

HealthIdle ==
    /\ hpc = "unused"
    /\ health_response = [status |-> 0, body |-> [kind |-> "none", fields |-> <<>>]]
    /\ health_gets = <<>>
    /\ health_results = <<>>

Init == ExportInit /\ PayloadIdle /\ HealthIdle

(***************************************************************************)
(* download_export, lines 116-121: coerce the ids, submit, poll.           *)
(***************************************************************************)
\* an exception leaves download_export
Raise(e) ==
    /\ pc' = "failed"
    /\ err' = e

\* lines 116-120: the call, the two list(map(str, ...)), the call of
\* _start_export_job
\* (variant: the destination is created before the job is submitted)
DownloadExport_creates_file ==
    /\ pc = "idle"
    /\ \E b \in IdLists, s \in IdLists, bar \in BOOLEAN :
        /\ behavior_ids' = b
        /\ studies' = s
        /\ show_progress_bar' = bar
        /\ start_calls' = Append(start_calls,
                [behavior_ids |-> map_str(b), studies |-> map_str(s)])
    /\ pc' = "start"
    /\ disk' = [exists |-> TRUE, data |-> ""]
    /\ UNCHANGED <<posts, gets, response, job_uri, poll_calls, log,
                   open_responses, err, progress, downloaded_logged, file_open,
                   open_calls, chunk, chunks>>
    /\ UNCHANGED <<payload_vars, health_vars>>
DownloadExport ==
    /\ pc = "idle"
    /\ \E b \in IdLists, s \in IdLists, bar \in BOOLEAN :
        /\ behavior_ids' = b
        /\ studies' = s
        /\ show_progress_bar' = bar
        /\ start_calls' = Append(start_calls,
                [behavior_ids |-> map_str(b), studies |-> map_str(s)])
    /\ pc' = "start"
    /\ UNCHANGED <<posts, gets, response, job_uri, poll_calls, log, open_responses, err,
                   progress, downloaded_logged, file_open, open_calls, disk,
                   chunk, chunks>>
    /\ UNCHANGED <<payload_vars, health_vars>>

\* line 57-63: the POST request of _start_export_job
PostRequest ==
    [url |-> ENDPOINT \o "/api/v1/exports",
     json |-> [behaviors |-> start_calls[Len(start_calls)].behavior_ids,
               studies |-> start_calls[Len(start_calls)].studies]]

\* _start_export_job, lines 57-67, the assignment of line 120 and the call
\* of _poll_export_job of line 121
StartExportJob ==
    /\ pc = "start"
    /\ posts' = Append(posts, PostRequest)
    /\ \/ \* the transport fails: session.post raises
          /\ Raise(Exc("ConnectionError", 0))
          /\ UNCHANGED <<response, job_uri, poll_calls>>
       \/ \E st \in PostStatuses, h \in PostHeaders :
            LET resp == Response("POST", Len(posts) + 1, st, h)
                out == start_export_job(resp)
            IN  /\ response' = resp
                /\ IF out.exc # NoError
                   THEN Raise(out.exc) /\ UNCHANGED <<job_uri, poll_calls>>
                   ELSE /\ job_uri' = out.ret
                        /\ poll_calls' = Append(poll_calls, out.ret)
                        /\ pc' = "poll"
                        /\ UNCHANGED err
    /\ UNCHANGED <<behavior_ids, studies, show_progress_bar, start_calls, gets,
                   log, open_responses, progress, downloaded_logged, file_open,
                   open_calls, disk, chunk, chunks>>
    /\ UNCHANGED <<payload_vars, health_vars>>

\* one iteration of the while loop of _poll_export_job, lines 82-91, up to
\* the sleep; the server may answer with any status in `statuses`
PollWith(statuses, transport_may_fail) ==
    /\ pc = "poll"
    /\ gets' = Append(gets, ENDPOINT \o job_uri)
    /\ \/ \* the transport fails: session.get raises
          /\ transport_may_fail
          /\ Raise(Exc("ConnectionError", 0))
          /\ log' = Append(log, Event("get", 0))
          /\ UNCHANGED <<response, open_responses>>
       \/ \E st \in statuses, h \in PollHeaders :
            LET resp == Response("GET", Len(gets) + 1, st, h)
                next == poll_export_job(resp)
            IN  /\ response' = resp
                /\ CASE next = "raise" ->
                          /\ Raise(Exc("HTTPError", st))
                          /\ log' = Append(log, Event("get", st))
                          /\ open_responses' = open_responses \cup {resp.id}
                     [] next = "sleep" ->
                          /\ pc' = "sleep"
                          /\ log' = log \o <<Event("get", st), Event("close", st)>>
                          /\ UNCHANGED <<open_responses, err>>
                     [] next = "return" ->
                          /\ pc' = "polled"
                          /\ log' = Append(log, Event("get", st))
                          /\ open_responses' = open_responses \cup {resp.id}
                          /\ UNCHANGED err
                     [] next = "loop" ->
                          /\ pc' = "poll"
                          /\ log' = Append(log, Event("get", st))
                          /\ open_responses' = open_responses \cup {resp.id}
                          /\ UNCHANGED err
    /\ UNCHANGED <<behavior_ids, studies, show_progress_bar, start_calls, posts,
                   job_uri, poll_calls, progress, downloaded_logged, file_open, open_calls,
                   disk, chunk, chunks>>
    /\ UNCHANGED <<payload_vars, health_vars>>

\* the server answers at most MaxPolls status requests
PollExportJob ==
    /\ Len(gets) < MaxPolls
    /\ PollWith(PollStatuses, TRUE)

\* lines 88-89: time.sleep(1), then continue
Sleep ==
    /\ pc = "sleep"
    /\ log' = Append(log, Event("sleep", PollInterval))
    /\ pc' = "poll"
    /\ UNCHANGED <<behavior_ids, studies, show_progress_bar, start_calls, posts,
                   gets, response, job_uri, poll_calls, open_responses, err, progress,
                   downloaded_logged, file_open, open_calls, disk, chunk, chunks>>
    /\ UNCHANGED <<payload_vars, health_vars>>


(***************************************************************************)
(* download_export, lines 123-131: the ProgressBar, the destination file   *)
(* and the chunk loop.                                                     *)
(***************************************************************************)
\* leaving "with ProgressBar(...)": __exit__ calls close(), which logs the
\* byte count
\* (variant: close() is also called at the end of the block)
ExitProgressBar_closes_twice ==
    /\ progress' = close(close(progress))
    /\ downloaded_logged' = downloaded_logged
            \o <<progress.current_size_in_bytes, progress.current_size_in_bytes>>
ExitProgressBar ==
    /\ progress' = close(progress)
    /\ downloaded_logged' = Append(downloaded_logged, progress.current_size_in_bytes)

\* leaving "with open(...) as f": the file object is closed
\* (raised: the block is left by an exception)
\* (variant: f.close() after the loop, without a with block)
ExitFile_no_with(raised) == IF raised THEN UNCHANGED file_open ELSE file_open' = FALSE
ExitFile(raised) == file_open' = FALSE

\* lines 123-127: the total size, ProgressBar.__init__ and __enter__
EnterProgressBar ==
    /\ pc = "polled"
    /\ progress' = ProgressBar(total_size_of(response), show_progress_bar)
    /\ pc' = "open"
    /\ UNCHANGED <<behavior_ids, studies, show_progress_bar, start_calls, posts,
                   gets, response, job_uri, poll_calls, log, open_responses, err,
                   downloaded_logged, file_open, open_calls, disk, chunk, chunks>>
    /\ UNCHANGED <<payload_vars, health_vars>>

\* line 128: open(filename, "wb") creates or truncates the file, or raises
OpenFile ==
    /\ pc = "open"
    /\ open_calls' = open_calls + 1
    /\ \/ /\ disk' = [exists |-> TRUE, data |-> ""]
          /\ file_open' = TRUE
          /\ pc' = "iter"
          /\ UNCHANGED <<err, progress, downloaded_logged>>
       \/ /\ Raise(Exc("OSError", 0))
          /\ ExitProgressBar
          /\ UNCHANGED <<disk, file_open>>
    /\ UNCHANGED <<behavior_ids, studies, show_progress_bar, start_calls, posts,
                   gets, response, job_uri, poll_calls, log, open_responses, chunk, chunks>>
    /\ UNCHANGED <<payload_vars, health_vars>>

\* line 129: iter_content yields the next chunk
NextChunk ==
    /\ pc = "iter"
    /\ Len(chunks) < MaxChunks
    /\ \E c \in Chunks :
        /\ chunk' = c
        /\ chunks' = Append(chunks, c)
    /\ pc' = "update"
    /\ UNCHANGED <<behavior_ids, studies, show_progress_bar, start_calls, posts,
                   gets, response, job_uri, poll_calls, log, open_responses, err, progress,
                   downloaded_logged, file_open, open_calls, disk>>
    /\ UNCHANGED <<payload_vars, health_vars>>

\* line 129: the body is exhausted; both with blocks are left normally
EndOfBody ==
    /\ pc = "iter"
    /\ ExitFile(FALSE)
    /\ ExitProgressBar
    /\ pc' = "done"
    /\ UNCHANGED <<behavior_ids, studies, show_progress_bar, start_calls, posts,
                   gets, response, job_uri, poll_calls, log, open_responses, err, open_calls,
                   disk, chunk, chunks>>
    /\ UNCHANGED <<payload_vars, health_vars>>

\* line 129: reading the body raises; both with blocks are left
ReadFails ==
    /\ pc = "iter"
    /\ Raise(Exc("ConnectionError", 0))
    /\ ExitFile(TRUE)
    /\ ExitProgressBar
    /\ UNCHANGED <<behavior_ids, studies, show_progress_bar, start_calls, posts,
                   gets, response, job_uri, poll_calls, log, open_responses, open_calls,
                   disk, chunk, chunks>>
    /\ UNCHANGED <<payload_vars, health_vars>>

\* line 130: progress_bar.update(len(chunk))
UpdateProgress ==
    /\ pc = "update"
    /\ progress' = update(progress, Len(chunk))
    /\ pc' = "write"
    /\ UNCHANGED <<behavior_ids, studies, show_progress_bar, start_calls, posts,
                   gets, response, job_uri, poll_calls, log, open_responses, err,
                   downloaded_logged, file_open, open_calls, disk, chunk, chunks>>
    /\ UNCHANGED <<payload_vars, health_vars>>

\* f.write(chunk) appends the chunk to the file
write(file, data) == [file EXCEPT !.data = @ \o data]

\* line 131: f.write(chunk)
WriteChunk ==
    /\ pc = "write"
    /\ disk' = write(disk, chunk)
    /\ pc' = "iter"
    /\ UNCHANGED <<behavior_ids, studies, show_progress_bar, start_calls, posts,
                   gets, response, job_uri, poll_calls, log, open_responses, err, progress,
                   downloaded_logged, file_open, open_calls, chunk, chunks>>
    /\ UNCHANGED <<payload_vars, health_vars>>

\* line 131: f.write(chunk) raises; both with blocks are left
\* (variant: the exception is caught in the loop and the chunk skipped)
WriteFails_skips_chunk ==
    /\ pc = "write"
    /\ pc' = "iter"
    /\ UNCHANGED <<behavior_ids, studies, show_progress_bar, start_calls, posts,
                   gets, response, job_uri, poll_calls, log, open_responses, err,
                   progress, downloaded_logged, file_open, open_calls, disk,
                   chunk, chunks>>
    /\ UNCHANGED <<payload_vars, health_vars>>
WriteFails ==
    /\ pc = "write"
    /\ Raise(Exc("OSError", 0))
    /\ ExitFile(TRUE)
    /\ ExitProgressBar
    /\ UNCHANGED <<behavior_ids, studies, show_progress_bar, start_calls, posts,
                   gets, response, job_uri, poll_calls, log, open_responses, open_calls,
                   disk, chunk, chunks>>
    /\ UNCHANGED <<payload_vars, health_vars>>

(***************************************************************************)
(* The specification of download_export.                                   *)
(***************************************************************************)
Next ==
    \/ DownloadExport
    \/ StartExportJob
    \/ PollExportJob
    \/ Sleep
    \/ EnterProgressBar
    \/ OpenFile
    \/ NextChunk
    \/ EndOfBody
    \/ ReadFails
    \/ UpdateProgress
    \/ WriteChunk
    \/ WriteFails

Spec == Init /\ [][Next]_vars


(***************************************************************************)
(* _poll_export_job against a server that answers every status request,   *)
(* with 202 or 200, and with 200 at the latest on request MaxPolls; every  *)
(* wait ends.                                                              *)
(***************************************************************************)
LivePoll ==
    PollWith(IF Len(gets) + 1 < MaxPolls THEN {202, 200} ELSE {200}, FALSE)

LiveNext ==
    \/ DownloadExport
    \/ StartExportJob
    \/ LivePoll
    \/ Sleep

LiveSpec == Init /\ [][LiveNext]_vars /\ WF_vars(LivePoll) /\ WF_vars(Sleep)

(***************************************************************************)
(* _get_payload.  A dict is the sequence of its entries in insertion       *)
(* order; a value of a group's list is a scalar or a dict of fields.       *)
(***************************************************************************)
Scalar(x) == [dict |-> FALSE, value |-> x, fields |-> <<>>]
Dict(fields) == [dict |-> TRUE, value |-> PyStr(""), fields |-> fields]
Entry(k, v) == [k |-> k, v |-> v]

\* f"{x}" of a str or an int
format(x) == str(x).s

\* lines 154-158: the pairs one item of a list yields; i is its index
\* (variant: the values are passed through str)
item_pairs_stringified(key, i, item) ==
    IF ~item.dict
    THEN <<Entry(key \o "[" \o IntStr(i) \o "]", str(item.value))>>
    ELSE [j \in 1..Len(item.fields) |->
            Entry(key \o "[" \o IntStr(i) \o "][" \o format(item.fields[j].k) \o "]",
                  str(item.fields[j].v))]
\* (variant: the fields of a mapping are taken in reverse)
item_pairs_fields_reversed(key, i, item) ==
    IF ~item.dict
    THEN <<Entry(key \o "[" \o IntStr(i) \o "]", item.value)>>
    ELSE [j \in 1..Len(item.fields) |->
            LET f == item.fields[Len(item.fields) + 1 - j]
            IN  Entry(key \o "[" \o IntStr(i) \o "][" \o format(f.k) \o "]", f.v)]
item_pairs(key, i, item) ==
    IF ~item.dict
    THEN <<Entry(key \o "[" \o IntStr(i) \o "]", item.value)>>
    ELSE [j \in 1..Len(item.fields) |->
            Entry(key \o "[" \o IntStr(i) \o "][" \o format(item.fields[j].k) \o "]",
                  item.fields[j].v)]

\* line 153: enumerate(list_) counts from 0; the pairs of items p..Len(list_)
RECURSIVE list_pairs(_, _, _)
list_pairs(key, list_, p) ==
    IF p > Len(list_) THEN <<>>
    ELSE item_pairs(key, p - 1, list_[p]) \o list_pairs(key, list_, p + 1)

\* line 152: the pairs of groups g..Len(ps), in params.items() order
RECURSIVE yield_payload_dict_item(_, _)
yield_payload_dict_item(ps, g) ==
    IF g > Len(ps) THEN <<>>
    ELSE list_pairs(ps[g].key, ps[g].list, 1) \o yield_payload_dict_item(ps, g + 1)

\* d[k] = v on a dict: a present key keeps its place and takes the new value
setitem(d, k, v) ==
    IF \E j \in 1..Len(d) : d[j].k = k
    THEN [j \in 1..Len(d) |-> IF d[j].k = k THEN Entry(k, v) ELSE d[j]]
    ELSE Append(d, Entry(k, v))

\* dict(pairs): the pairs are inserted in order; n is how many are inserted
RECURSIVE dict(_, _)
dict(pairs, n) ==
    IF n = 0 THEN <<>> ELSE setitem(dict(pairs, n - 1), pairs[n].k, pairs[n].v)

\* line 191
get_payload(ps) ==
    LET pairs == yield_payload_dict_item(ps, 1) IN dict(pairs, Len(pairs))

\* the values a caller lists in a group
Items ==
    { Scalar(PyInt(4)),
      Scalar(PyStr("7")),
      Dict(<<>>),
      Dict(<<Entry(PyStr("building_type"), PyStr("Educational")),
             Entry(PyStr("room_type"), PyStr("Office"))>>),
      Dict(<<Entry(PyStr("room_type"), PyStr("Office")),
             Entry(PyStr("building_type"), PyStr("Residential"))>>),
      Dict(<<Entry(PyStr("0"), PyStr("Office"))>>) }
ItemLists == UNION {[1..n -> Items] : n \in 0..MaxItems}
\* the groups of a filter, in the caller's insertion order
GroupOrders ==
    { <<>>, <<"studies">>, <<"buildings">>,
      <<"studies", "buildings">>, <<"buildings", "studies">> }
\* the filters _get_payload is called with: each group of one of the orders
\* with one of the lists
PayloadInit ==
    /\ ExportInit
    /\ disk = NoDisk
    /\ \E o \in GroupOrders : \E f \in [1..Len(o) -> ItemLists] :
          params = [g \in 1..Len(o) |-> [key |-> o[g], list |-> f[g]]]
    /\ payload = <<>>
    /\ ppc = "call"
    /\ HealthIdle

\* the call of _get_payload(params)
GetPayload ==
    /\ ppc = "call"
    /\ payload' = get_payload(params)
    /\ ppc' = "done"
    /\ UNCHANGED params
    /\ UNCHANGED <<export_vars, health_vars>>

PayloadNext == GetPayload

PayloadSpec == PayloadInit /\ [][PayloadNext]_vars


(***************************************************************************)
(* check_health, lines 133-140.                                            *)
(***************************************************************************)
\* None, as json() gives it for null
PyNone == [t |-> "NoneType", n |-> 0, s |-> ""]

\* the body of a response: text that is not JSON, a JSON array, or a JSON
\* object with its members in the order the server wrote them
NotJson == [kind |-> "text", fields |-> <<>>]
JsonArray == [kind |-> "array", fields |-> <<>>]
JsonObject(fields) == [kind |-> "object", fields |-> fields]

\* the members a health payload is made of
StatusValues ==
    {PyStr("ok"), PyStr("OK"), PyStr("ok "), PyStr("down"), PyInt(1), PyNone}
Members ==
    {Entry("status", v) : v \in StatusValues}
        \cup {Entry("Status", PyStr("ok")), Entry("version", PyStr("ok"))}
HealthBodies ==
    {NotJson, JsonArray}
        \cup {JsonObject(f) : f \in UNION {[1..n -> Members] : n \in 0..MaxFields}}
HealthStatuses == {200, 503}

\* d[k] of a dict
has(d, k) == \E j \in 1..Len(d) : d[j].k = k
getitem(d, k) == d[CHOOSE j \in 1..Len(d) : d[j].k = k].v

\* line 140: response.json()["status"] == "ok"; no status check precedes it
\* (variant: the HTTP status decides)
check_health_http_ok(resp) ==
    [exc |-> NoError, ret |-> resp.status < 400]
check_health(resp) ==
    IF resp.body.kind = "text"
    THEN [exc |-> Exc("JSONDecodeError", 0), ret |-> FALSE]
    ELSE IF resp.body.kind = "array"
    THEN [exc |-> Exc("TypeError", 0), ret |-> FALSE]
    ELSE LET json == dict(resp.body.fields, Len(resp.body.fields))
         IN IF ~has(json, "status")
            THEN [exc |-> Exc("KeyError", 0), ret |-> FALSE]
            ELSE [exc |-> NoError, ret |-> getitem(json, "status") = PyStr("ok")]

HealthInit ==
    /\ ExportInit
    /\ disk = NoDisk
    /\ PayloadIdle
    /\ hpc = "ready"
    /\ health_response \in [status : HealthStatuses, body : HealthBodies]
    /\ health_gets = <<>>
    /\ health_results = <<>>

\* one call of check_health()
CheckHealth ==
    /\ hpc = "ready"
    /\ Len(health_results) < MaxHealthCalls
    /\ health_gets' = Append(health_gets, ENDPOINT \o "/api/v1/health")
    /\ health_results' = Append(health_results, check_health(health_response))
    /\ UNCHANGED <<hpc, health_response>>
    /\ UNCHANGED <<export_vars, payload_vars>>

HealthNext == CheckHealth

HealthSpec == HealthInit /\ [][HealthNext]_vars


(***************************************************************************)
(* What the properties below read off the state.                           *)
(***************************************************************************)
IsGet(ev) == ev.e = "get"
\* the statuses of the status responses so far, in order (0: no response)
GetStatuses ==
    LET g == SelectSeq(log, IsGet) IN [i \in 1..Len(g) |-> g[i].n]

\* _poll_export_job is looping / has returned its response
PollRunning == pc \in {"poll", "sleep"}
PollReturned ==
    \/ pc \in {"polled", "open", "iter", "update", "write", "done"}
    \/ pc = "failed" /\ open_calls > 0

\* n statuses 202 followed by one status 200
AcceptedThenReady(st) ==
    /\ Len(st) >= 1
    /\ st[Len(st)] = 200
    /\ \A i \in 1..(Len(st) - 1) : st[i] = 202
AllAccepted(st) == \A i \in 1..Len(st) : st[i] = 202

\* the events of n iterations that got 202: request, close, one wait
RECURSIVE AcceptedRounds(_)
AcceptedRounds(n) ==
    IF n = 0 THEN <<>>
    ELSE <<Event("get", 202), Event("close", 202), Event("sleep", 1)>>
            \o AcceptedRounds(n - 1)

\* the response the code holds answers the job-creation POST
HoldsPostResponse == response.method = "POST"

RECURSIVE Concat(_)
Concat(seq) == IF seq = <<>> THEN "" ELSE seq[1] \o Concat(Tail(seq))
RECURSIVE SumLen(_)
SumLen(seq) == IF seq = <<>> THEN 0 ELSE Len(seq[1]) + SumLen(Tail(seq))

(***************************************************************************)
(* Properties.                                                             *)
(***************************************************************************)

\* C1: when the status responses are n times 202 and then one 200,
\* _poll_export_job has returned that 200 response (the answer to request
\* n+1), n+1 status requests were issued, and the loop's events are exactly
\* n rounds of request, close, one wait of PollInterval seconds, followed by
\* the last request with no wait after it; and the poll has returned only if
\* the last status response was a 200.
C1_PollReturnsAfterReady ==
    LET st == GetStatuses IN
    /\ AcceptedThenReady(st) =>
          /\ PollReturned
          /\ response = Response("GET", Len(st), 200, response.headers)
          /\ Len(gets) = Len(st)
          /\ log = AcceptedRounds(Len(st) - 1) \o <<Event("get", 200)>>
    /\ PollReturned => Len(st) >= 1 /\ st[Len(st)] = 200

C1_Witness ==
    /\ pc = "polled"
    /\ GetStatuses = <<202, 202, 200>>

\* C2: every status response that is neither 202 nor 200 is the
\* last one, and the poll has failed on it with an HTTPError carrying its
\* status.
C2_OtherStatusFails ==
    LET st == GetStatuses IN
    \A i \in 1..Len(st) :
        (st[i] \notin {0, 200, 202}) =>
            /\ i = Len(st)
            /\ pc = "failed"
            /\ err = Exc("HTTPError", st[i])

\* C3: as long as every status response so far was a 202 the poll has
\* neither returned nor failed, and it goes on to issue one more request,
\* whatever the number of requests; and against a server that eventually
\* answers 200, with every wait ending, the poll eventually returns.
C3_PollUnbounded ==
    /\ [](Len(gets) >= 1 /\ AllAccepted(GetStatuses)
            => PollRunning /\ err = NoError)
    /\ \A k \in 0..(MaxPolls - 1) :
          (PollRunning /\ Len(gets) = k /\ AllAccepted(GetStatuses))
              ~> (Len(gets) = k + 1)
    /\ (pc = "poll") ~> (pc = "polled")

C3_Witness ==
    /\ pc = "sleep"
    /\ Len(gets) = MaxPolls - 1
    /\ AllAccepted(GetStatuses)

\* C4: when the job-creation POST is answered with a non-error status and a
\* Location header, _start_export_job has returned exactly the header's
\* value, after one POST and no other request.
C4_StartReturnsLocation ==
    (/\ HoldsPostResponse
     /\ ~(400 <= response.status /\ response.status < 600)
     /\ "location" \in DOMAIN response.headers)
    => /\ job_uri = response.headers["location"]
       /\ err.kind \notin {"HTTPError", "KeyError"}
       /\ Len(posts) = 1
       /\ (gets = <<>> => pc = "poll")

C4_Witness ==
    /\ pc = "poll"
    /\ gets = <<>>
    /\ response.status = 202
    /\ response.headers = Header("location", "/api/v1/exports/abc")
    /\ job_uri = "/api/v1/exports/abc"

\* C5: when the job-creation POST is answered with a 4xx or 5xx status,
\* download_export has failed with an HTTPError carrying that status, no
\* location was returned and no status request is issued, with or without a
\* Location header in the response.
C5_StartErrorStatusFails ==
    (/\ HoldsPostResponse
     /\ 400 <= response.status /\ response.status < 600)
    => /\ pc = "failed"
       /\ err = Exc("HTTPError", response.status)
       /\ job_uri = ""
       /\ gets = <<>>

C5_Witness ==
    /\ pc = "failed"
    /\ HoldsPostResponse
    /\ response.status = 404
    /\ "location" \in DOMAIN response.headers

\* C6: when the job-creation POST is answered with a non-error status and
\* no Location header, download_export has failed with a KeyError, which is
\* neither the HTTPError of a bad status nor a transport or I/O error, and
\* no status request is issued.
C6_StartMissingLocationFails ==
    (/\ HoldsPostResponse
     /\ ~(400 <= response.status /\ response.status < 600)
     /\ "location" \notin DOMAIN response.headers)
    => /\ pc = "failed"
       /\ err.kind = "KeyError"
       /\ err.kind \notin {"HTTPError", "ConnectionError", "OSError"}
       /\ job_uri = ""
       /\ gets = <<>>

C6_Witness ==
    /\ pc = "failed"
    /\ HoldsPostResponse
    /\ response.status = 202
    /\ response.headers = NoHeaders

\* C7: when download_export completes, the destination holds exactly the
\* concatenation of the chunks read, in order, and the ProgressBar's
\* current_size_in_bytes is the sum of their lengths.
C7_StreamWritesConcatenation ==
    pc = "done" =>
        /\ disk = [exists |-> TRUE, data |-> Concat(chunks)]
        /\ progress.current_size_in_bytes = SumLen(chunks)

C7_Witness ==
    /\ pc = "done"
    /\ chunks = <<"AB", "CD">>
    /\ disk.data = "ABCD"
    /\ progress.current_size_in_bytes = 4

\* C8: in no terminal state of download_export is the destination file
\* still open, whether it completed, a read failed or a write failed.
C8_FileClosedOnExit ==
    pc \in {"done", "failed"} => ~file_open

C8_Witness ==
    /\ pc = "failed"
    /\ err.kind = "OSError"
    /\ open_calls = 1
    /\ Len(chunks) >= 1
    /\ ~file_open

\* C9: the lists passed to _start_export_job, and sent in the POST, have the
\* length and order of the caller's lists, every element is a str, a str is
\* passed unchanged and an int as its decimal text.
Coerced(given, passed) ==
    /\ Len(passed) = Len(given)
    /\ \A i \in 1..Len(given) :
          /\ passed[i].t = "str"
          /\ given[i].t = "str" => passed[i] = given[i]
          /\ given[i].t = "int" => passed[i] = PyStr(IntStr(given[i].n))
    /\ given = <<PyInt(22), PyStr("11"), PyInt(2)>>
          => passed = <<PyStr("22"), PyStr("11"), PyStr("2")>>
    /\ given = <<PyInt(0), PyInt(-7)>> => passed = <<PyStr("0"), PyStr("-7")>>

C9_IdsCoerced ==
    /\ Len(start_calls) <= 1
    /\ pc # "idle" =>
          /\ Len(start_calls) = 1
          /\ Coerced(behavior_ids, start_calls[1].behavior_ids)
          /\ Coerced(studies, start_calls[1].studies)
    /\ \A i \in 1..Len(posts) :
          /\ Coerced(behavior_ids, posts[i].json.behaviors)
          /\ Coerced(studies, posts[i].json.studies)

C9_Witness ==
    /\ Len(posts) = 1
    /\ studies = <<PyInt(22), PyStr("11"), PyInt(2)>>
    /\ posts[1].json.studies = <<PyStr("22"), PyStr("11"), PyStr("2")>>
    /\ behavior_ids = <<PyStr("Appliance_Usage"), PyStr("Occupancy")>>

\* C10: the pairs of _get_payload's result are exactly: for each group g
\* and index i (from 0), g[i] -> v with v unchanged when the i-th value is a
\* scalar v, and g[i][k] -> val for each entry (k, val) when it is a
\* mapping; nothing else, and nothing twice.
ExpectedPairs(ps) ==
    UNION { UNION {
        IF ~ps[g].list[p].dict
        THEN { Entry(ps[g].key \o "[" \o IntStr(p - 1) \o "]", ps[g].list[p].value) }
        ELSE { Entry(ps[g].key \o "[" \o IntStr(p - 1) \o "][" \o f.k.s \o "]", f.v) :
                f \in {ps[g].list[p].fields[j] : j \in 1..Len(ps[g].list[p].fields)} }
        : p \in 1..Len(ps[g].list) } : g \in 1..Len(ps) }

C10_PayloadPairs ==
    ppc = "done" =>
        /\ {payload[j] : j \in 1..Len(payload)} = ExpectedPairs(params)
        /\ Len(payload) = Cardinality(ExpectedPairs(params))

C10_Witness ==
    /\ ppc = "done"
    /\ params = << [key |-> "studies", list |-> <<Scalar(PyInt(4)), Scalar(PyStr("7"))>>],
                   [key |-> "buildings", list |->
                      << Dict(<<>>),
                         Dict(<<Entry(PyStr("building_type"), PyStr("Educational")),
                                Entry(PyStr("room_type"), PyStr("Office"))>>) >>] >>
    /\ payload = << Entry("studies[0]", PyInt(4)),
                    Entry("studies[1]", PyStr("7")),
                    Entry("buildings[1][building_type]", PyStr("Educational")),
                    Entry("buildings[1][room_type]", PyStr("Office")) >>


\* C11: in _get_payload's result two different input positions (group,
\* index and, in a mapping, field) never have the same key, so the result
\* has one entry per scalar and per field; and the keys come in the input's
\* iteration order: groups in insertion order, then the list index
\* ascending, then the fields of a mapping in insertion order.
\* (a position: <<group, place in the list, field>>, field 0 for a scalar)
Positions(ps) ==
    UNION { UNION {
        IF ~ps[g].list[p].dict
        THEN { <<g, p, 0>> }
        ELSE { <<g, p, f>> : f \in 1..Len(ps[g].list[p].fields) }
        : p \in 1..Len(ps[g].list) } : g \in 1..Len(ps) }

KeyAt(ps, pos) ==
    LET head == ps[pos[1]].key \o "[" \o IntStr(pos[2] - 1) \o "]"
    IN  IF pos[3] = 0 THEN head
        ELSE head \o "[" \o ps[pos[1]].list[pos[2]].fields[pos[3]].k.s \o "]"

Before(a, b) ==
    \/ a[1] < b[1]
    \/ a[1] = b[1] /\ a[2] < b[2]
    \/ a[1] = b[1] /\ a[2] = b[2] /\ a[3] < b[3]

PlacesOf(d, k) == {j \in 1..Len(d) : d[j].k = k}

CountedChunks == IF pc = "update" THEN SubSeq(chunks, 1, Len(chunks) - 1) ELSE chunks
WrittenChunks ==
    IF pc \in {"update", "write"} \/ (pc = "failed" /\ err.kind = "OSError")
    THEN SubSeq(chunks, 1, Len(chunks) - 1)
    ELSE chunks

C12_MeterDoesNotChangeTransfer ==
    /\ ~show_progress_bar => progress.progress_bar = NoTqdm
    /\ progress.current_size_in_bytes = SumLen(CountedChunks)
    /\ open_calls > 0 /\ (pc = "failed" => chunks # <<>>)
          => disk = [exists |-> TRUE, data |-> Concat(WrittenChunks)]
    /\ \A i \in 1..Len(posts) :
          posts[i] = [url |-> ENDPOINT \o "/api/v1/exports",
                      json |-> [behaviors |-> map_str(behavior_ids),
                                studies |-> map_str(studies)]]
    /\ \A i \in 1..Len(gets) : gets[i] = ENDPOINT \o job_uri
    /\ \A i \in 1..Len(downloaded_logged) :
          downloaded_logged[i] = SumLen(CountedChunks)

C12_Witness ==
    /\ ~show_progress_bar
    /\ pc = "done"
    /\ chunks = <<"AB", "E">>
    /\ disk.data = "ABE"
    /\ progress.current_size_in_bytes = 3
    /\ progress.progress_bar = NoTqdm


\* C13: check_health returns True only for a payload whose status field is
\* exactly "ok" and False for every other value of the field; a payload
\* that has no status field never gives True (it gives False or raises),
\* and repeated calls on the same payload have the same outcome.
\* (the value of the payload's status member, the last one if repeated)
HasStatus(body) ==
    body.kind = "object" /\ \E j \in 1..Len(body.fields) : body.fields[j].k = "status"
StatusOf(body) ==
    LET at == {j \in 1..Len(body.fields) : body.fields[j].k = "status"}
    IN body.fields[CHOOSE j \in at : \A i \in at : i <= j].v

C13_HealthOnlyExactOk ==
    \A i \in 1..Len(health_results) :
        LET r == health_results[i]
            body == health_response.body
        IN /\ HasStatus(body) =>
                 /\ r.exc = NoError
                 /\ r.ret <=> (StatusOf(body) = PyStr("ok"))
           /\ ~HasStatus(body) => (r.exc # NoError \/ ~r.ret)
           /\ r.exc # NoError => ~r.ret
           /\ \A j \in 1..Len(health_results) : health_results[j] = r

C13_Witness ==
    /\ health_response.body
          = JsonObject(<<Entry("version", PyStr("ok")), Entry("status", PyStr("OK"))>>)
    /\ health_response.status = 200
    /\ health_results = <<[exc |-> NoError, ret |-> FALSE], [exc |-> NoError, ret |-> FALSE]>>


\* C14: download_export goes through its steps in one order: one call of
\* _start_export_job with the coerced id lists (one POST), then one call of
\* _poll_export_job with the location that call returned, then one
\* open(filename, "wb"), then the chunk writes; no status request is sent
\* before _start_export_job has returned, none after the file is opened,
\* and the destination is not touched before a status request was answered
\* with 200.
LastStatusIsReady ==
    GetStatuses # <<>> /\ GetStatuses[Len(GetStatuses)] = 200

StepsOrder ==
    /\ Len(start_calls) <= 1 /\ Len(posts) <= 1
    /\ Len(poll_calls) <= 1 /\ open_calls <= 1
    /\ pc # "idle" =>
          start_calls = <<[behavior_ids |-> [i \in 1..Len(behavior_ids) |->
                                              PyStr(format(behavior_ids[i]))],
                           studies |-> [i \in 1..Len(studies) |->
                                              PyStr(format(studies[i]))]]>>
    /\ posts # <<>> =>
          /\ start_calls # <<>>
          /\ posts[1].json = [behaviors |-> start_calls[1].behavior_ids,
                              studies |-> start_calls[1].studies]
    /\ poll_calls # <<>> => Len(posts) = 1
    /\ gets # <<>> =>
          /\ Len(poll_calls) = 1
          /\ \A i \in 1..Len(gets) : gets[i] = ENDPOINT \o poll_calls[1]
    /\ open_calls > 0 => LastStatusIsReady
    /\ chunks # <<>> => open_calls = 1 /\ disk.exists
    /\ pc = "done" =>
          Len(start_calls) = 1 /\ Len(posts) = 1 /\ Len(poll_calls) = 1 /\ open_calls = 1

StepsOrderStep ==
    /\ poll_calls' # poll_calls =>
          /\ response'.method = "POST"
          /\ "location" \in DOMAIN response'.headers
          /\ poll_calls' = <<response'.headers["location"]>>
          /\ gets = <<>> /\ open_calls = 0
    /\ gets' # gets => Len(poll_calls) = 1 /\ poll_calls' = poll_calls /\ open_calls' = 0
    /\ open_calls' # open_calls =>
          /\ LastStatusIsReady /\ gets' = gets
          /\ chunks' = <<>>
          /\ disk' # disk => disk' = [exists |-> TRUE, data |-> ""]
    /\ disk' # disk =>
          /\ open_calls' = 1 /\ LastStatusIsReady
          /\ open_calls' = open_calls => disk' = [disk EXCEPT !.data = @ \o chunk]

C14_StepsInOrder == []StepsOrder /\ [][StepsOrderStep]_vars

C14_Witness ==
    /\ pc = "done"
    /\ behavior_ids = <<PyInt(22), PyStr("11"), PyInt(2)>>
    /\ start_calls[1].behavior_ids = <<PyStr("22"), PyStr("11"), PyStr("2")>>
    /\ Len(posts) = 1
    /\ poll_calls = <<"/api/v1/exports/abc">>
    /\ gets = <<ENDPOINT \o "/api/v1/exports/abc", ENDPOINT \o "/api/v1/exports/abc">>
    /\ GetStatuses = <<202, 200>>
    /\ open_calls = 1
    /\ disk = [exists |-> TRUE, data |-> "ABCD"]


\* C15: for each chunk current_size_in_bytes is advanced by exactly the
\* chunk's length, and before the chunk is appended to the file; the count
\* never decreases, and in every state
\*   bytes written <= count <= bytes written + length of the chunk in hand,
\* with equality whenever no chunk is in hand.  A chunk is in hand from the
\* moment iter_content yields it until it is written; one whose write
\* raised stays so.
\* (the destination has been opened by this call)
Opened ==
    \/ pc \in {"iter", "update", "write", "done"}
    \/ pc = "failed" /\ open_calls > 0 /\ ~(err.kind = "OSError" /\ chunks = <<>>)
BytesWritten == IF Opened THEN Len(disk.data) ELSE 0
ChunkInHand ==
    \/ pc \in {"update", "write"}
    \/ pc = "failed" /\ err.kind = "OSError" /\ chunks # <<>>

CountBounds ==
    /\ BytesWritten <= progress.current_size_in_bytes
    /\ progress.current_size_in_bytes
          <= BytesWritten + (IF ChunkInHand THEN Len(chunk) ELSE 0)
    /\ ~ChunkInHand => progress.current_size_in_bytes = BytesWritten
    /\ pc = "update" => progress.current_size_in_bytes = BytesWritten
    /\ pc = "write" => progress.current_size_in_bytes = BytesWritten + Len(chunk)

CountStep ==
    /\ progress'.current_size_in_bytes >= progress.current_size_in_bytes
    /\ progress'.current_size_in_bytes # progress.current_size_in_bytes =>
          /\ pc = "update" /\ disk' = disk
          /\ progress'.current_size_in_bytes
                = progress.current_size_in_bytes + Len(chunk)
    /\ disk' # disk /\ open_calls' = open_calls =>
          /\ pc = "write" /\ progress' = progress
          /\ Len(disk'.data) = progress.current_size_in_bytes

C15_CountLeadsFile == []CountBounds /\ [][CountStep]_vars

C15_Witness ==
    /\ pc = "write"
    /\ chunks = <<"AB", "E">>
    /\ chunk = "E"
    /\ disk.data = "AB"
    /\ progress.current_size_in_bytes = 3


\* C16: when f.write of chunk k raises, download_export ends at once with
\* that OSError: nothing more is read or written and the write is not tried
\* again, the file is closed, and the destination stays as it was, holding
\* exactly the chunks 1..k-1.
WriteRaised == pc = "failed" /\ err.kind = "OSError" /\ chunks # <<>>

WriteFailureStep ==
    /\ pc = "write" /\ disk' = disk =>
          /\ pc' = "failed"
          /\ err' = Exc("OSError", 0)
          /\ chunks' = chunks /\ chunk' = chunk
          /\ gets' = gets /\ posts' = posts /\ open_calls' = open_calls
          /\ ~file_open'
    /\ ~WriteRaised

WriteFailureLeaves ==
    WriteRaised =>
        /\ disk = [exists |-> TRUE,
                   data |-> Concat(SubSeq(chunks, 1, Len(chunks) - 1))]
        /\ ~file_open
        /\ open_calls = 1

C16_WriteFailureAborts == []WriteFailureLeaves /\ [][WriteFailureStep]_vars

C16_Witness ==
    /\ pc = "failed"
    /\ err = Exc("OSError", 0)
    /\ chunks = <<"AB", "CD">>
    /\ chunk = "CD"
    /\ disk = [exists |-> TRUE, data |-> "AB"]
    /\ ~file_open


\* C17: once a status request has been answered with 200 or with a 4xx/5xx
\* status, or has failed in the transport, _poll_export_job sends no
\* further request: on 200 it has returned that response, otherwise
\* download_export has ended with the HTTPError or the ConnectionError.
\* (the outcome of the latest status request; 0 is a transport failure)
LastStatus == IF GetStatuses = <<>> THEN 202 ELSE GetStatuses[Len(GetStatuses)]
PollEnded ==
    LastStatus = 200 \/ LastStatus = 0 \/ (400 <= LastStatus /\ LastStatus < 600)

PollEndedState ==
    /\ Len(GetStatuses) = Len(gets)
    /\ PollEnded => ~PollRunning
    /\ LastStatus = 200 =>
          /\ PollReturned
          /\ response = Response("GET", Len(gets), 200, response.headers)
    /\ 400 <= LastStatus /\ LastStatus < 600 =>
          /\ pc = "failed" /\ err = Exc("HTTPError", LastStatus)
          /\ open_calls = 0
    /\ LastStatus = 0 =>
          /\ pc = "failed" /\ err = Exc("ConnectionError", 0)
          /\ open_calls = 0

PollEndedStep == PollEnded => gets' = gets /\ log' = log

C17_PollOutcomesTerminal == []PollEndedState /\ [][PollEndedStep]_vars

C17_Witness ==
    /\ GetStatuses = <<202, 500>>
    /\ Len(gets) = 2
    /\ pc = "failed"
    /\ err = Exc("HTTPError", 500)


\* C18: while _poll_export_job loops, every response that did not end the
\* poll has been closed before the wait and before the next GET, so at most
\* one status response is open at any moment, and when the poll returns
\* the only open response is the 200 response it returns, of which nothing
\* has been read.
C18_OneOpenResponse ==
    /\ Cardinality(open_responses) <= 1
    /\ PollRunning => open_responses = {}
    /\ pc = "polled" =>
          /\ response.status = 200
          /\ open_responses = {response.id}
          /\ chunks = <<>>

\* the same for the runs in which every status response is one the poll
\* knows: 202, 200 or an error status
KnownStatuses ==
    \A i \in 1..Len(GetStatuses) :
        GetStatuses[i] \in {0, 200, 202} \/ raises_for_status(GetStatuses[i])
OneOpenResponseWhenKnown == KnownStatuses => C18_OneOpenResponse


\* C19: the total the ProgressBar is made with is the 200 response's
\* content-length when the header is present and 0 when it is absent; a
\* total of 0 (header absent, or "0") raises nothing: making the
\* ProgressBar always succeeds, and every chunk is still counted and
\* written.
HasProgressBar == pc \in {"open", "iter", "update", "write", "done"}
ZeroTotal == HasProgressBar /\ progress.total_size_in_bytes = 0

TotalSizeState ==
    /\ HasProgressBar =>
          /\ response.headers = NoHeaders => progress.total_size_in_bytes = 0
          /\ response.headers = Header("content-length", "0") =>
                progress.total_size_in_bytes = 0
          /\ response.headers = Header("content-length", "4") =>
                progress.total_size_in_bytes = 4
          /\ show_progress_bar =>
                /\ progress.progress_bar.made
                /\ progress.progress_bar.total = progress.total_size_in_bytes
    /\ ZeroTotal =>
          /\ err = NoError
          /\ pc \in {"iter", "done"} =>
                /\ disk.data = Concat(chunks)
                /\ progress.current_size_in_bytes = SumLen(chunks)
          /\ pc = "write" => progress.current_size_in_bytes = SumLen(chunks)

TotalSizeStep ==
    /\ pc = "polled" => pc' = "open" /\ err' = NoError
    /\ ZeroTotal /\ pc' = "failed" =>
          \/ pc = "open" /\ err' = Exc("OSError", 0)
          \/ pc = "iter" /\ err' = Exc("ConnectionError", 0)
          \/ pc = "write" /\ err' = Exc("OSError", 0)

C19_ZeroTotalStreams == []TotalSizeState /\ [][TotalSizeStep]_vars

C19_Witness ==
    /\ pc = "done"
    /\ response.headers = NoHeaders
    /\ show_progress_bar
    /\ progress.total_size_in_bytes = 0
    /\ chunks = <<"CD", "E">>
    /\ disk.data = "CDE"
    /\ progress.current_size_in_bytes = 3
    /\ downloaded_logged = <<3>>


\* C20: as long as _start_export_job or _poll_export_job has failed or the
\* poll has not returned, download_export has not called open on the
\* destination: a file that was there is as it was, none has been created;
\* the destination changes only after a status request was answered
\* with 200.
BeforeReady ==
    \/ pc \in {"idle", "start", "poll", "sleep"}
    \/ pc = "failed" /\ ~LastStatusIsReady

DestinationUntouched ==
    /\ BeforeReady =>
          /\ open_calls = 0
          /\ ~file_open
          /\ disk \in {NoDisk, OldDisk}
          /\ chunks = <<>>
    /\ pc = "failed" /\ (posts = <<>> \/ gets = <<>> \/ err.kind = "HTTPError")
          => BeforeReady

DestinationStep ==
    /\ BeforeReady' => disk' = disk /\ file_open' = file_open
    /\ disk' # disk => LastStatusIsReady /\ open_calls' = 1

C20_NoOpenBeforeReady == []DestinationUntouched /\ [][DestinationStep]_vars

C20_Witness ==
    /\ pc = "failed"
    /\ GetStatuses = <<202, 404>>
    /\ err = Exc("HTTPError", 404)
    /\ disk = OldDisk
    /\ open_calls = 0


\* C21: once download_export has made the ProgressBar, close() is called on
\* it exactly once on every way out of the streaming phase: the end of the
\* body, a failing open, a failing read and a failing write; it is called
\* after the last update() and with the destination file, if it was opened,
\* closed, and the "Downloaded N bytes" line carries the byte count
\* accumulated until then.
StreamingLeft == pc = "done" \/ (pc = "failed" /\ LastStatusIsReady)

ClosedOnceState ==
    /\ progress.closes <= 1
    /\ Len(downloaded_logged) = progress.closes
    /\ ~StreamingLeft => progress.closes = 0
    /\ StreamingLeft =>
          /\ progress.closes = 1
          /\ ~file_open
          /\ downloaded_logged = <<progress.current_size_in_bytes>>
          /\ progress.current_size_in_bytes = SumLen(chunks)

ClosedOnceStep ==
    /\ progress.closes > 0 => progress' = progress
    /\ progress'.closes # progress.closes =>
          /\ pc \in {"open", "iter", "write"}
          /\ pc' \in {"done", "failed"}
          /\ progress'.current_size_in_bytes = progress.current_size_in_bytes
          /\ ~file_open'

C21_ProgressBarClosedOnce == []ClosedOnceState /\ [][ClosedOnceStep]_vars

C21_Witness ==
    /\ pc = "failed"
    /\ err = Exc("ConnectionError", 0)
    /\ LastStatusIsReady
    /\ chunks = <<"AB">>
    /\ disk.data = "AB"
    /\ ~file_open
    /\ progress.closes = 1
    /\ downloaded_logged = <<2>>

====
